---- MODULE Spec2Model ----
(***************************************************************************)
(* ClimateSense AI Architect: the application state controller (App).      *)
(*                                                                         *)
(* The App component owns one DesignState object and three asynchronous    *)
(* handlers (handleGenerate, handleRefine, handleRunDiagnostics).  Each    *)
(* handler runs synchronously up to its next awaited remote call; the      *)
(* model has one action per such synchronous segment: the three triggers,  *)
(* and for every remote call one action for its promise being fulfilled    *)
(* and one for its being rejected.                                         *)
(*                                                                         *)
(* Every response of the remote service is a freshly parsed object         *)
(* (JSON.parse), so a response is identified by the index of the call that *)
(* produced it; the fields of a response carry that index as their value.  *)
(* `calls' is the list of the remote calls issued so far: an entry with    *)
(* status "pending" is a promise in flight together with the values its    *)
(* handler's closure captured, the other entries are the calls that have   *)
(* returned.                                                               *)
(***************************************************************************)
EXTENDS Integers, Sequences, FiniteSets, TLC

VARIABLES location, state, calls, before, viewer, card

vars == <<location, state, calls, before, viewer, card>>

(* ---------------------------------------------------------------------- *)
(* Bounds                                                                  *)
(* ---------------------------------------------------------------------- *)

\* the number of remote calls issued in one behaviour
MaxCalls == 7

\* the texts the user may type in the location input ("" is the empty input)
Locations == {"", "Phoenix"}

\* the messages a rejected call may carry ("" stands for an absent message)
ErrMessages == {"", "Service unavailable"}

(* ---------------------------------------------------------------------- *)
(* Optional values: an optional field is <<>> when undefined, <<v>> when   *)
(* it holds v.                                                             *)
(* ---------------------------------------------------------------------- *)

undefined == <<>>

Some(v) == <<v>>

Val(o) == o[1]

(* ---------------------------------------------------------------------- *)
(* Domain model: the objects parsed from the response of call n            *)
(* ---------------------------------------------------------------------- *)

ClimateData(n) ==
    [location |-> n, climateZone |-> n, averageTemp |-> n,
     solarPotential |-> n, prevailingWinds |-> n,
     climate_challenges |-> n, design_strategies |-> n,
     orientation_guidance |-> n, window_guidance |-> n, zoning_guidance |-> n]

FloorPlan(n) ==
    [designTitle |-> n, orientation |-> n, rooms |-> n, totalArea |-> n,
     performanceMetrics |-> n, architectReasoning |-> n,
     rejected_alternatives |-> n, diagnostics |-> n]

ClimateDiagnostics(n) == n

RefinementResult(n) ==
    [revised_floor_plan |-> FloorPlan(n), changes_made |-> n,
     expected_improvements |-> n]

OptimizationEvaluation(n) ==
    [iterate |-> n, recommended_adjustments |-> n, expected_benefit |-> n]

\* the fields of a floor plan other than its diagnostics
PlanFieldsOtherThanDiagnostics ==
    {"designTitle", "orientation", "rooms", "totalArea", "performanceMetrics",
     "architectReasoning", "rejected_alternatives"}

(* ---------------------------------------------------------------------- *)
(* Remote calls                                                            *)
(* ---------------------------------------------------------------------- *)

\* A call issued by a handler.  wf is the index of the first call of the
\* workflow run the call belongs to; location, climate, plan, metrics are
\* the values the run holds in its closure (those the call does not use
\* are "" or undefined).
Call(kind, wf, loc, climate, plan, metrics) ==
    [kind |-> kind, wf |-> wf, status |-> "pending",
     location |-> loc, climate |-> climate, plan |-> plan, metrics |-> metrics]

Pending(kind) ==
    {i \in DOMAIN calls : calls[i].kind = kind /\ calls[i].status = "pending"}

Fulfilled(i) == [calls EXCEPT ![i].status = "ok"]

Rejected(i) == [calls EXCEPT ![i].status = "failed"]

\* Calls already issued plus the follow-up calls (design after climate,
\* evaluate after refine) the runs in flight may still issue.
Reserved == Len(calls) + Cardinality(Pending("climate") \cup Pending("refine"))

\* the state fields that hold results (the others are the four busy flags
\* and the error)
ResultFields ==
    {"climate", "floorPlan", "previousFloorPlan", "refinement",
     "optimizationVerdict", "history"}

\* `before' records the latest invocation of a handler: its name and what
\* the handler found when it was invoked (the location input, the results
\* stored in the state, the number of calls issued, the calls in flight).
\* SpecInvoke keeps the record, Spec does without it.
Snapshot(handler) ==
    [handler |-> handler, location |-> location,
     state |-> [f \in ResultFields |-> state[f]],
     issued |-> Len(calls),
     pending |-> {i \in DOMAIN calls : calls[i].status = "pending"}]

\* The two views are not part of the controller; while the controller runs
\* they are left out of the picture.
NoViewer ==
    [plan |-> undefined, showAirflow |-> FALSE, showHeatRisk |-> FALSE,
     showDaylight |-> FALSE, svg |-> undefined]

NoCard == [metrics |-> undefined, avgScore |-> undefined]

(* ---------------------------------------------------------------------- *)
(* Initial state                                                           *)
(* ---------------------------------------------------------------------- *)

Init ==
    /\ location = ""
    /\ state = [isGenerating |-> FALSE, isRefining |-> FALSE,
                isEvaluating |-> FALSE, isDiagnosing |-> FALSE,
                climate |-> undefined, floorPlan |-> undefined,
                previousFloorPlan |-> undefined, refinement |-> undefined,
                optimizationVerdict |-> undefined, error |-> undefined,
                history |-> <<>>]
    /\ calls = <<>>
    /\ before = Snapshot("")
    /\ viewer = NoViewer
    /\ card = NoCard

(* ---------------------------------------------------------------------- *)
(* The location input                                                      *)
(* ---------------------------------------------------------------------- *)

setLocation(l) ==
    /\ l \in Locations
    /\ l # location
    /\ location' = l
    /\ UNCHANGED <<state, calls, before, viewer, card>>

(* ---------------------------------------------------------------------- *)
(* Generate                                                                *)
(* ---------------------------------------------------------------------- *)

\* variant: the submit button gated by the Generate flag alone
GenerateEnabledOwnFlagOnly == ~(state.isGenerating \/ location = "")

\* the submit button of the form
GenerateEnabled == ~(state.isGenerating \/ state.isRefining \/ location = "")

\* variant: the first update keeps the previous plan
handleGenerateKeepsPreviousPlan ==
    IF location = ""
    THEN UNCHANGED <<state, calls>>
    ELSE /\ state' = [state EXCEPT !.isGenerating = TRUE,
                                   !.error = undefined,
                                   !.refinement = undefined,
                                   !.optimizationVerdict = undefined]
         /\ calls' = Append(calls, Call("climate", Len(calls) + 1, location,
                                        undefined, undefined, undefined))

\* variant: the first update also discards the plan and the climate on display
handleGenerateClearsPlan ==
    IF location = ""
    THEN UNCHANGED <<state, calls>>
    ELSE /\ state' = [state EXCEPT !.isGenerating = TRUE,
                                   !.error = undefined,
                                   !.climate = undefined,
                                   !.floorPlan = undefined,
                                   !.refinement = undefined,
                                   !.optimizationVerdict = undefined,
                                   !.previousFloorPlan = undefined]
         /\ calls' = Append(calls, Call("climate", Len(calls) + 1, location,
                                        undefined, undefined, undefined))

\* handleGenerate up to the await of getClimateData
handleGenerate ==
    IF location = ""
    THEN UNCHANGED <<state, calls>>
    ELSE /\ state' = [state EXCEPT !.isGenerating = TRUE,
                                   !.error = undefined,
                                   !.refinement = undefined,
                                   !.optimizationVerdict = undefined,
                                   !.previousFloorPlan = undefined]
         /\ calls' = Append(calls, Call("climate", Len(calls) + 1, location,
                                        undefined, undefined, undefined))

Generate ==
    /\ GenerateEnabled
    /\ Reserved + 2 <= MaxCalls
    /\ handleGenerate
    /\ UNCHANGED <<location, before, viewer, card>>

\* the form is submitted; the button looks at the two busy flags, the
\* handler itself at the location
InvokeGenerate ==
    /\ ~(state.isGenerating \/ state.isRefining)
    /\ Reserved + 2 <= MaxCalls
    /\ handleGenerate
    /\ before' = Snapshot("handleGenerate")
    /\ UNCHANGED <<location, viewer, card>>

\* variant: the climate is stored as soon as it arrives
ClimateFulfilledStoresClimate(i) ==
    /\ i \in Pending("climate")
    /\ calls' = Append(Fulfilled(i),
                       Call("design", calls[i].wf, calls[i].location,
                            Some(ClimateData(i)), undefined, undefined))
    /\ state' = [state EXCEPT !.climate = Some(ClimateData(i))]
    /\ UNCHANGED <<location, before, viewer, card>>

\* getClimateData is fulfilled: handleGenerate goes on to generateDesign
ClimateFulfilled(i) ==
    /\ i \in Pending("climate")
    /\ calls' = Append(Fulfilled(i),
                       Call("design", calls[i].wf, calls[i].location,
                            Some(ClimateData(i)), undefined, undefined))
    /\ UNCHANGED <<location, state, before, viewer, card>>

\* variant: the catch block also discards the plan on display
GenerateCatchClearsPlan(msg) ==
    [state EXCEPT !.isGenerating = FALSE,
                  !.floorPlan = undefined,
                  !.climate = undefined,
                  !.error = Some(IF msg # "" THEN msg
                                 ELSE "Failed to generate design.")]

\* the catch block of handleGenerate
GenerateCatch(msg) ==
    [state EXCEPT !.isGenerating = FALSE,
                  !.error = Some(IF msg # "" THEN msg
                                 ELSE "Failed to generate design.")]

\* variant: a rejected climate call is issued again
ClimateRejectedRetries(i, msg) ==
    /\ i \in Pending("climate")
    /\ IF Len(calls) < MaxCalls
       THEN /\ calls' = Append(Rejected(i),
                               Call("climate", calls[i].wf, calls[i].location,
                                    undefined, undefined, undefined))
            /\ state' = state
       ELSE /\ calls' = Rejected(i)
            /\ state' = [state EXCEPT !.isGenerating = FALSE,
                                      !.error = Some("Failed to generate design.")]
    /\ UNCHANGED <<location, before, viewer, card>>

ClimateRejected(i, msg) ==
    /\ i \in Pending("climate")
    /\ calls' = Rejected(i)
    /\ state' = GenerateCatch(msg)
    /\ UNCHANGED <<location, before, viewer, card>>

\* variant: the completion update stores the plan without the climate
GenerateSuccessDropsClimate(prev, climate, plan, loc) ==
    [prev EXCEPT !.floorPlan = Some(plan),
                 !.isGenerating = FALSE,
                 !.history = Append(prev.history, "Designed for " \o loc)]

\* generateDesign is fulfilled: the completion update of handleGenerate
GenerateSuccess(prev, climate, plan, loc) ==
    [prev EXCEPT !.climate = climate,
                 !.floorPlan = Some(plan),
                 !.isGenerating = FALSE,
                 !.history = Append(prev.history, "Designed for " \o loc)]

DesignFulfilled(i) ==
    /\ i \in Pending("design")
    /\ calls' = Fulfilled(i)
    /\ state' = GenerateSuccess(state, calls[i].climate, FloorPlan(i),
                                calls[i].location)
    /\ UNCHANGED <<location, before, viewer, card>>

DesignRejected(i, msg) ==
    /\ i \in Pending("design")
    /\ calls' = Rejected(i)
    /\ state' = GenerateCatch(msg)
    /\ UNCHANGED <<location, before, viewer, card>>

(* ---------------------------------------------------------------------- *)
(* Refine                                                                  *)
(* ---------------------------------------------------------------------- *)

\* the "Refine & Optimize" button: rendered inside the floor plan section
\* while no refinement is stored, disabled while refining
RefineEnabled ==
    /\ state.floorPlan # undefined
    /\ state.refinement = undefined
    /\ ~state.isRefining

\* handleRefine up to the await of refineDesign
handleRefine ==
    IF state.floorPlan = undefined \/ state.climate = undefined
    THEN UNCHANGED <<state, calls>>
    ELSE /\ state' = [state EXCEPT !.isRefining = TRUE]
         /\ calls' = Append(calls, Call("refine", Len(calls) + 1, "",
                                        state.climate, state.floorPlan,
                                        undefined))

Refine ==
    /\ RefineEnabled
    /\ Reserved + 2 <= MaxCalls
    /\ handleRefine
    /\ UNCHANGED <<location, before, viewer, card>>

\* handleRefine is invoked; the button looks at the stored refinement and
\* the busy flag, the handler itself at the plan and the climate
InvokeRefine ==
    /\ state.refinement = undefined /\ ~state.isRefining
    /\ Reserved + 2 <= MaxCalls
    /\ handleRefine
    /\ before' = Snapshot("handleRefine")
    /\ UNCHANGED <<location, viewer, card>>

\* variant: the plan demoted to "previous" is the one current at completion
RefineSuccessDemotesCurrent(prev, refinement, originalPlan) ==
    [prev EXCEPT !.isRefining = FALSE,
                 !.refinement = Some(refinement),
                 !.previousFloorPlan = prev.floorPlan,
                 !.floorPlan = Some(refinement.revised_floor_plan),
                 !.history = Append(prev.history,
                                "Refined design for performance optimization")]

\* the update applied when refineDesign is fulfilled
RefineSuccess(prev, refinement, originalPlan) ==
    [prev EXCEPT !.isRefining = FALSE,
                 !.refinement = Some(refinement),
                 !.previousFloorPlan = originalPlan,
                 !.floorPlan = Some(refinement.revised_floor_plan),
                 !.history = Append(prev.history,
                                "Refined design for performance optimization")]

\* the auto-evaluate that follows in the same synchronous segment
EvaluateStart(prev) == [prev EXCEPT !.isEvaluating = TRUE]

\* variant: a revision of a plan that is no longer current is dropped
RefineFulfilledUnlessSuperseded(i) ==
    /\ i \in Pending("refine")
    /\ IF Val(state.floorPlan).rooms = Val(calls[i].plan).rooms
       THEN /\ state' = EvaluateStart(RefineSuccess(state, RefinementResult(i),
                                                    calls[i].plan))
            /\ calls' = Append(Fulfilled(i),
                               Call("evaluate", calls[i].wf, "", undefined,
                                    undefined,
                                    Some(RefinementResult(i).revised_floor_plan
                                             .performanceMetrics)))
       ELSE /\ state' = [state EXCEPT !.isRefining = FALSE]
            /\ calls' = Fulfilled(i)
    /\ UNCHANGED <<location, before, viewer, card>>

RefineFulfilled(i) ==
    /\ i \in Pending("refine")
    /\ state' = EvaluateStart(RefineSuccess(state, RefinementResult(i),
                                            calls[i].plan))
    /\ calls' = Append(Fulfilled(i),
                       Call("evaluate", calls[i].wf, "", undefined, undefined,
                            Some(RefinementResult(i).revised_floor_plan
                                     .performanceMetrics)))
    /\ UNCHANGED <<location, before, viewer, card>>

\* variant: the catch block leaves the evaluating flag alone
RefineCatchLeavesEvaluating(prev) ==
    [prev EXCEPT !.isRefining = FALSE,
                 !.error = Some("Optimization cycle failed. Please try again.")]

\* the catch block of handleRefine
RefineCatch(prev) ==
    [prev EXCEPT !.isRefining = FALSE,
                 !.isEvaluating = FALSE,
                 !.error = Some("Optimization cycle failed. Please try again.")]

RefineRejected(i, msg) ==
    /\ i \in Pending("refine")
    /\ calls' = Rejected(i)
    /\ state' = RefineCatch(state)
    /\ UNCHANGED <<location, before, viewer, card>>

\* variant: a successful evaluation also clears the error banner
EvaluateSuccessClearsError(prev, verdict) ==
    [prev EXCEPT !.isEvaluating = FALSE,
                 !.error = undefined,
                 !.optimizationVerdict = Some(verdict)]

\* variant: the verdict is logged in the history
EvaluateSuccessLogsVerdict(prev, verdict) ==
    [prev EXCEPT !.isEvaluating = FALSE,
                 !.optimizationVerdict = Some(verdict),
                 !.history = Append(prev.history, "Evaluated optimization")]

EvaluateSuccess(prev, verdict) ==
    [prev EXCEPT !.isEvaluating = FALSE,
                 !.optimizationVerdict = Some(verdict)]

EvaluateFulfilled(i) ==
    /\ i \in Pending("evaluate")
    /\ calls' = Fulfilled(i)
    /\ state' = EvaluateSuccess(state, OptimizationEvaluation(i))
    /\ UNCHANGED <<location, before, viewer, card>>

EvaluateRejected(i, msg) ==
    /\ i \in Pending("evaluate")
    /\ calls' = Rejected(i)
    /\ state' = RefineCatch(state)
    /\ UNCHANGED <<location, before, viewer, card>>

(* ---------------------------------------------------------------------- *)
(* Diagnose                                                                *)
(* ---------------------------------------------------------------------- *)

\* variant: the button is not disabled while an audit runs
DiagnoseEnabledWhileDiagnosing ==
    /\ state.floorPlan # undefined
    /\ ~state.isRefining

\* the "Diagnostic Audit" button: rendered inside the floor plan section
DiagnoseEnabled ==
    /\ state.floorPlan # undefined
    /\ ~(state.isDiagnosing \/ state.isRefining)

\* variant: the handler does not look for a plan before it starts
handleRunDiagnosticsNoGuard ==
    /\ state' = [state EXCEPT !.isDiagnosing = TRUE]
    /\ calls' = Append(calls, Call("diagnostics", Len(calls) + 1, "",
                                   undefined, state.floorPlan, undefined))

\* handleRunDiagnostics up to the await of getDiagnostics
handleRunDiagnostics ==
    IF state.floorPlan = undefined
    THEN UNCHANGED <<state, calls>>
    ELSE /\ state' = [state EXCEPT !.isDiagnosing = TRUE]
         /\ calls' = Append(calls, Call("diagnostics", Len(calls) + 1, "",
                                        undefined, state.floorPlan, undefined))

Diagnose ==
    /\ DiagnoseEnabled
    /\ Reserved + 1 <= MaxCalls
    /\ handleRunDiagnostics
    /\ UNCHANGED <<location, before, viewer, card>>

\* handleRunDiagnostics is invoked; the button looks at the two busy flags,
\* the handler itself at the plan
InvokeDiagnose ==
    /\ ~(state.isDiagnosing \/ state.isRefining)
    /\ Reserved + 1 <= MaxCalls
    /\ handleRunDiagnostics
    /\ before' = Snapshot("handleRunDiagnostics")
    /\ UNCHANGED <<location, viewer, card>>

\* variant: a successful audit also clears the error banner
DiagnoseSuccessClearsError(prev, diagnostics) ==
    [prev EXCEPT !.isDiagnosing = FALSE,
                 !.error = undefined,
                 !.floorPlan =
                     IF prev.floorPlan # undefined
                     THEN Some([Val(prev.floorPlan)
                                  EXCEPT !.diagnostics = diagnostics])
                     ELSE undefined]

\* variant: diagnostics computed for a plan that is no longer current are
\* dropped
DiagnoseSuccessDropsStale(prev, diagnostics) ==
    [prev EXCEPT !.isDiagnosing = FALSE,
                 !.floorPlan =
                     IF prev.floorPlan # undefined
                        /\ Val(prev.floorPlan).rooms
                              = Val(calls[diagnostics].plan).rooms
                     THEN Some([Val(prev.floorPlan)
                                  EXCEPT !.diagnostics = diagnostics])
                     ELSE prev.floorPlan]

\* the update applied when getDiagnostics is fulfilled
DiagnoseSuccess(prev, diagnostics) ==
    [prev EXCEPT !.isDiagnosing = FALSE,
                 !.floorPlan =
                     IF prev.floorPlan # undefined
                     THEN Some([Val(prev.floorPlan)
                                  EXCEPT !.diagnostics = diagnostics])
                     ELSE undefined]

DiagnosticsFulfilled(i) ==
    /\ i \in Pending("diagnostics")
    /\ calls' = Fulfilled(i)
    /\ state' = DiagnoseSuccess(state, ClimateDiagnostics(i))
    /\ UNCHANGED <<location, before, viewer, card>>

\* variant: the catch block leaves the diagnosing flag set
DiagnoseCatchKeepsFlag(prev) ==
    [prev EXCEPT !.error = Some("Diagnostic audit failed.")]

\* the catch block of handleRunDiagnostics
DiagnoseCatch(prev) ==
    [prev EXCEPT !.isDiagnosing = FALSE,
                 !.error = Some("Diagnostic audit failed.")]

DiagnosticsRejected(i, msg) ==
    /\ i \in Pending("diagnostics")
    /\ calls' = Rejected(i)
    /\ state' = DiagnoseCatch(state)
    /\ UNCHANGED <<location, before, viewer, card>>

(* ---------------------------------------------------------------------- *)
(* Specification                                                           *)
(* ---------------------------------------------------------------------- *)

Next ==
    \/ \E l \in Locations : setLocation(l)
    \/ Generate
    \/ \E i \in DOMAIN calls : ClimateFulfilled(i)
    \/ \E i \in DOMAIN calls, msg \in ErrMessages : ClimateRejected(i, msg)
    \/ \E i \in DOMAIN calls : DesignFulfilled(i)
    \/ \E i \in DOMAIN calls, msg \in ErrMessages : DesignRejected(i, msg)
    \/ Refine
    \/ \E i \in DOMAIN calls : RefineFulfilled(i)
    \/ \E i \in DOMAIN calls, msg \in ErrMessages : RefineRejected(i, msg)
    \/ \E i \in DOMAIN calls : EvaluateFulfilled(i)
    \/ \E i \in DOMAIN calls, msg \in ErrMessages : EvaluateRejected(i, msg)
    \/ Diagnose
    \/ \E i \in DOMAIN calls : DiagnosticsFulfilled(i)
    \/ \E i \in DOMAIN calls, msg \in ErrMessages : DiagnosticsRejected(i, msg)

Spec == Init /\ [][Next]_vars

\* call i returns, fulfilled or rejected
CallReturns(i) ==
    \/ ClimateFulfilled(i)
    \/ DesignFulfilled(i)
    \/ RefineFulfilled(i)
    \/ EvaluateFulfilled(i)
    \/ DiagnosticsFulfilled(i)
    \/ \E msg \in ErrMessages :
          \/ ClimateRejected(i, msg)
          \/ DesignRejected(i, msg)
          \/ RefineRejected(i, msg)
          \/ EvaluateRejected(i, msg)
          \/ DiagnosticsRejected(i, msg)

\* The controller when every remote call issued returns in the end; the
\* continuation of the handler then runs, the event loop being free between
\* handlers.
SpecFair == Spec /\ \A i \in 1..MaxCalls : WF_vars(CallReturns(i))

\* The controller with its handlers invoked whatever data is present, and
\* with the record of the latest invocation kept.
NextInvoke ==
    \/ \E l \in Locations : setLocation(l)
    \/ InvokeGenerate
    \/ \E i \in DOMAIN calls : ClimateFulfilled(i)
    \/ \E i \in DOMAIN calls, msg \in ErrMessages : ClimateRejected(i, msg)
    \/ \E i \in DOMAIN calls : DesignFulfilled(i)
    \/ \E i \in DOMAIN calls, msg \in ErrMessages : DesignRejected(i, msg)
    \/ InvokeRefine
    \/ \E i \in DOMAIN calls : RefineFulfilled(i)
    \/ \E i \in DOMAIN calls, msg \in ErrMessages : RefineRejected(i, msg)
    \/ \E i \in DOMAIN calls : EvaluateFulfilled(i)
    \/ \E i \in DOMAIN calls, msg \in ErrMessages : EvaluateRejected(i, msg)
    \/ InvokeDiagnose
    \/ \E i \in DOMAIN calls : DiagnosticsFulfilled(i)
    \/ \E i \in DOMAIN calls, msg \in ErrMessages : DiagnosticsRejected(i, msg)

SpecInvoke == Init /\ [][NextInvoke]_vars

(* ---------------------------------------------------------------------- *)
(* Reading the call list                                                   *)
(* ---------------------------------------------------------------------- *)

\* call i of the given kind returns in this step with the given status
Returns(i, kind, status) ==
    /\ calls[i].kind = kind
    /\ calls[i].status = "pending"
    /\ calls'[i].status = status

\* this step issues a call, of the given kind
Issues(kind) ==
    /\ Len(calls') = Len(calls) + 1
    /\ calls'[Len(calls')].kind = kind

\* the calls of workflow run w, in the order of their issue
RunCalls(w) == SelectSeq(calls, LAMBDA c : c.wf = w)

Runs == {calls[i].wf : i \in DOMAIN calls}

\* the new history is the old one with exactly one entry appended
OneAppended(old, new) ==
    /\ Len(new) = Len(old) + 1
    /\ SubSeq(new, 1, Len(old)) = old

(* ---------------------------------------------------------------------- *)
(* C1                                                                      *)
(* ---------------------------------------------------------------------- *)

\* the calls of every run are one of the sequences the handlers allow, a
\* follow-up call exists only behind a fulfilled first call, and only the
\* last call of a run can be pending or failed
RunsAreSequential ==
    \A w \in Runs :
        LET r == RunCalls(w)
            kinds == [k \in DOMAIN r |-> r[k].kind]
        IN /\ kinds \in {<<"climate">>, <<"climate", "design">>,
                         <<"refine">>, <<"refine", "evaluate">>,
                         <<"diagnostics">>}
           /\ calls[w].kind = kinds[1]
           /\ \A k \in 1..(Len(r) - 1) : r[k].status = "ok"

\* a step in which a call is rejected issues no call; a step that issues a
\* design (evaluate) call is the fulfilment of the climate (refine) call of
\* the same run
NoRetry ==
    /\ (\E i \in DOMAIN calls :
           calls[i].status = "pending" /\ calls'[i].status = "failed")
       => Len(calls') = Len(calls)
    /\ Issues("design") =>
          \E i \in DOMAIN calls : /\ Returns(i, "climate", "ok")
                                  /\ calls'[Len(calls')].wf = calls[i].wf
    /\ Issues("evaluate") =>
          \E i \in DOMAIN calls : /\ Returns(i, "refine", "ok")
                                  /\ calls'[Len(calls')].wf = calls[i].wf

\* C1: within one workflow run the remote calls are issued in sequence and at
\* most once each: design only after its climate call was fulfilled, evaluate
\* only after its refine call was fulfilled, nothing after a rejected call;
\* a Generate whose design call was fulfilled issued exactly climate, design.
C1_SequentialCallsNoRetry == []RunsAreSequential /\ [][NoRetry]_vars

\* a Generate run has completed with both calls fulfilled, and another run
\* has ended in a rejected call
C1_Witness ==
    /\ \E i \in DOMAIN calls :
          calls[i].kind = "design" /\ calls[i].status = "ok"
    /\ \E i \in DOMAIN calls :
          calls[i].kind \in {"climate", "refine"} /\ calls[i].status = "failed"

(* ---------------------------------------------------------------------- *)
(* C2                                                                      *)
(* ---------------------------------------------------------------------- *)

\* C2: when both calls of a Generate are fulfilled, the completion update
\* leaves climate equal to the climate call's result, floorPlan equal to the
\* design call's result, isGenerating false and history with exactly one
\* entry appended.
C2_GenerateSuccessStoresBoth ==
    [][\A i \in DOMAIN calls :
          Returns(i, "design", "ok") =>
             /\ calls[calls[i].wf].kind = "climate"
             /\ state'.climate = Some(ClimateData(calls[i].wf))
             /\ state'.floorPlan = Some(FloorPlan(i))
             /\ state'.isGenerating = FALSE
             /\ OneAppended(state.history, state'.history)]_vars

\* a second Generate has completed: both of its results are stored and the
\* history holds two entries
C2_Witness ==
    \E i \in DOMAIN calls :
        /\ calls[i].kind = "design" /\ calls[i].status = "ok"
        /\ calls[i].wf > 1
        /\ state.floorPlan = Some(FloorPlan(i))
        /\ state.climate = Some(ClimateData(calls[i].wf))
        /\ Len(state.history) = 2

(* ---------------------------------------------------------------------- *)
(* C3                                                                      *)
(* ---------------------------------------------------------------------- *)

\* no design call has been fulfilled so far
NoPlanGeneratedYet ==
    \A j \in DOMAIN calls : ~(calls[j].kind = "design" /\ calls[j].status = "ok")

\* C3 as stated: after a Generate's design call is rejected the error is
\* set, isGenerating is false and floorPlan is absent.
C3_Original ==
    [][\A i \in DOMAIN calls :
          Returns(i, "design", "failed") =>
             /\ state'.error # undefined
             /\ state'.isGenerating = FALSE
             /\ state'.floorPlan = undefined]_vars

\* C3 as amended: after a Generate's design call is rejected the error is
\* set, isGenerating is false, and the failed run has stored nothing:
\* floorPlan and climate are what they were before the failure update, and
\* are absent when no earlier Generate has completed.
C3_DesignFailureStoresNoPlan ==
    [][\A i \in DOMAIN calls :
          Returns(i, "design", "failed") =>
             /\ state'.error # undefined
             /\ Val(state'.error) # ""
             /\ state'.isGenerating = FALSE
             /\ state'.floorPlan = state.floorPlan
             /\ state'.climate = state.climate
             /\ state'.floorPlan # Some(FloorPlan(i))
             /\ NoPlanGeneratedYet => state'.floorPlan = undefined]_vars

\* the design call of a first Generate was rejected, and no plan is stored
C3_Witness ==
    /\ \E i \in DOMAIN calls :
          calls[i].kind = "design" /\ calls[i].status = "failed"
    /\ NoPlanGeneratedYet
    /\ state.error # undefined
    /\ ~state.isGenerating
    /\ state.floorPlan = undefined

(* ---------------------------------------------------------------------- *)
(* C4                                                                      *)
(* ---------------------------------------------------------------------- *)

\* C4: no partial Generate result is ever stored: in every reachable state
\* climate is present if and only if floorPlan is present.
C4_ClimateIffFloorPlan ==
    (state.climate # undefined) <=> (state.floorPlan # undefined)

\* a Generate fetched its climate, its design call was rejected, and neither
\* a climate nor a plan is stored
C4_Witness ==
    /\ \E i \in DOMAIN calls :
          calls[i].kind = "design" /\ calls[i].status = "failed"
    /\ state.climate = undefined
    /\ state.floorPlan = undefined
    /\ ~state.isGenerating

(* ---------------------------------------------------------------------- *)
(* C5                                                                      *)
(* ---------------------------------------------------------------------- *)

\* a Refine trigger sends the plan and the climate that are current
RefineSendsCurrentPlan ==
    Issues("refine") =>
        /\ calls'[Len(calls')].plan = state.floorPlan
        /\ calls'[Len(calls')].climate = state.climate
        /\ state.floorPlan # undefined

\* the update of a fulfilled refine call, and the evaluate call behind it
RefineSuccessEffect ==
    \A i \in DOMAIN calls :
        Returns(i, "refine", "ok") =>
           /\ state'.floorPlan = Some(RefinementResult(i).revised_floor_plan)
           /\ state'.previousFloorPlan = calls[i].plan
           /\ state'.refinement = Some(RefinementResult(i))
           /\ state'.isRefining = FALSE
           /\ OneAppended(state.history, state'.history)
           /\ Issues("evaluate")
           /\ calls'[Len(calls')].status = "pending"
           /\ calls'[Len(calls')].metrics =
                 Some(Val(state'.floorPlan).performanceMetrics)
           /\ state'.isEvaluating = TRUE

\* the update of a fulfilled evaluate call
EvaluateSuccessEffect ==
    \A i \in DOMAIN calls :
        Returns(i, "evaluate", "ok") =>
           /\ state'.optimizationVerdict = Some(OptimizationEvaluation(i))
           /\ state'.isEvaluating = FALSE

\* C5: when the refine call is fulfilled, floorPlan becomes the revised plan,
\* previousFloorPlan the plan that was current when Refine was triggered,
\* refinement the result, isRefining false, one history entry is appended and
\* an evaluate call on the revised plan's metrics is issued; when that call is
\* fulfilled optimizationVerdict holds its result and isEvaluating is false.
C5_RefineSuccessThenEvaluate ==
    [][RefineSendsCurrentPlan /\ RefineSuccessEffect
         /\ EvaluateSuccessEffect]_vars

\* a Refine has completed with both calls fulfilled, after a Diagnose had
\* changed the plan between its trigger and its refine call's return
C5_Witness ==
    \E i \in DOMAIN calls :
        /\ calls[i].kind = "evaluate" /\ calls[i].status = "ok"
        /\ state.optimizationVerdict = Some(OptimizationEvaluation(i))
        /\ state.refinement = Some(RefinementResult(calls[i].wf))
        /\ state.previousFloorPlan = calls[calls[i].wf].plan
        /\ \E d \in DOMAIN calls :
              /\ calls[d].kind = "diagnostics" /\ calls[d].status = "ok"
              /\ d < calls[i].wf
              /\ Val(state.previousFloorPlan).diagnostics # ClimateDiagnostics(d)
              /\ Val(state.floorPlan).diagnostics # ClimateDiagnostics(d)

(* ---------------------------------------------------------------------- *)
(* C6                                                                      *)
(* ---------------------------------------------------------------------- *)

\* C6: when a Refine fails, at the refine call or at the evaluate call, the
\* failure update leaves isRefining false, isEvaluating false and error equal
\* to the one fixed message.
C6_RefineFailureFixedMessage ==
    [][\A i \in DOMAIN calls :
          (Returns(i, "refine", "failed") \/ Returns(i, "evaluate", "failed"))
          => /\ state'.isRefining = FALSE
             /\ state'.isEvaluating = FALSE
             /\ state'.error =
                   Some("Optimization cycle failed. Please try again.")]_vars

\* an evaluate call was rejected and the fixed message is shown
C6_Witness ==
    /\ \E i \in DOMAIN calls :
          calls[i].kind = "evaluate" /\ calls[i].status = "failed"
    /\ state.error = Some("Optimization cycle failed. Please try again.")
    /\ ~state.isRefining
    /\ ~state.isEvaluating

(* ---------------------------------------------------------------------- *)
(* C7                                                                      *)
(* ---------------------------------------------------------------------- *)

\* the state fields a Diagnose completion has no business with
FieldsOtherThanPlanAndDiagnosing ==
    {"isGenerating", "isRefining", "isEvaluating", "climate",
     "previousFloorPlan", "refinement", "optimizationVerdict", "error",
     "history"}

\* C7: a successful Diagnose changes only the diagnostics field of the plan
\* that is current when the update is applied, and the isDiagnosing flag.
C7_DiagnoseFrame ==
    [][\A i \in DOMAIN calls :
          Returns(i, "diagnostics", "ok") =>
             /\ state.floorPlan # undefined
             /\ state'.floorPlan # undefined
             /\ \A f \in PlanFieldsOtherThanDiagnostics :
                   Val(state'.floorPlan)[f] = Val(state.floorPlan)[f]
             /\ \A f \in FieldsOtherThanPlanAndDiagnosing :
                   state'[f] = state[f]]_vars

\* two Diagnose runs have completed on the same plan, which still has the
\* fields it was generated with and carries the second run's diagnostics
C7_Witness ==
    \E i, j \in DOMAIN calls :
        /\ i < j
        /\ calls[i].kind = "diagnostics" /\ calls[i].status = "ok"
        /\ calls[j].kind = "diagnostics" /\ calls[j].status = "ok"
        /\ Val(calls[i].plan).designTitle = Val(calls[j].plan).designTitle
        /\ state.floorPlan =
              Some([FloorPlan(Val(calls[i].plan).designTitle)
                      EXCEPT !.diagnostics = ClimateDiagnostics(j)])

(* ---------------------------------------------------------------------- *)
(* C8                                                                      *)
(* ---------------------------------------------------------------------- *)

\* C8: a fulfilled diagnostics call attaches its result to whatever plan is
\* current at its completion, without regard to the plan it was computed for
\* (so diagnostics computed for a plan that a Refine has replaced end up on
\* the revised plan: C8_Witness).
C8_DiagnosticsAttachedToCurrentPlan ==
    [][\A i \in DOMAIN calls :
          Returns(i, "diagnostics", "ok") =>
             state'.floorPlan =
                Some([Val(state.floorPlan)
                        EXCEPT !.diagnostics = ClimateDiagnostics(i)])]_vars

\* floorPlan is a refinement's revised plan and carries diagnostics that
\* were computed for the plan that refinement replaced
C8_Witness ==
    /\ state.floorPlan # undefined
    /\ state.refinement # undefined
    /\ state.previousFloorPlan # undefined
    /\ Val(state.floorPlan).rooms = Val(state.refinement).revised_floor_plan.rooms
    /\ LET d == Val(state.floorPlan).diagnostics
       IN /\ calls[d].kind = "diagnostics"
          /\ calls[d].status = "ok"
          /\ Val(calls[d].plan).rooms = Val(state.previousFloorPlan).rooms
          /\ Val(calls[d].plan).rooms # Val(state.floorPlan).rooms

(* ---------------------------------------------------------------------- *)
(* C9                                                                      *)
(* ---------------------------------------------------------------------- *)

\* C9 as stated: each trigger is gated by its own busy flag only.
C9_Original ==
    /\ (location # "" /\ ~state.isGenerating) => GenerateEnabled
    /\ (state.floorPlan # undefined /\ ~state.isDiagnosing) => DiagnoseEnabled
    /\ (state.floorPlan # undefined /\ ~state.isRefining) => RefineEnabled

\* the condition under which each control accepts a trigger
GenerateGate ==
    location # "" /\ ~state.isGenerating /\ ~state.isRefining

DiagnoseGate ==
    state.floorPlan # undefined /\ ~state.isDiagnosing /\ ~state.isRefining

RefineGate ==
    /\ state.floorPlan # undefined
    /\ state.refinement = undefined
    /\ ~state.isRefining

\* a run is started only through an open gate
TriggersOnlyThroughGate ==
    /\ Issues("climate") => GenerateGate
    /\ Issues("diagnostics") => DiagnoseGate
    /\ Issues("refine") => RefineGate

\* through an open gate a run can be started (while the call budget lasts)
GateOpenMeansTriggerable ==
    /\ (GenerateGate /\ Reserved + 2 <= MaxCalls) => ENABLED Generate
    /\ (DiagnoseGate /\ Reserved + 1 <= MaxCalls) => ENABLED Diagnose
    /\ (RefineGate /\ Reserved + 2 <= MaxCalls) => ENABLED Refine

\* C9 as amended: Generate can be triggered exactly when the location is
\* non-empty and neither isGenerating nor isRefining is set, Diagnose exactly
\* when a plan is present and neither isDiagnosing nor isRefining is set,
\* Refine exactly when a plan is present, no refinement is stored and
\* isRefining is not set; the other busy flags do not gate them.
C9_TriggerGates ==
    []GateOpenMeansTriggerable /\ [][TriggersOnlyThroughGate]_vars

\* a Refine was started while a Generate and a Diagnose were in flight: the
\* three workflows run at the same time
C9_Witness ==
    /\ state.isRefining /\ state.isGenerating /\ state.isDiagnosing
    /\ \E r \in Pending("refine"), g \in Pending("climate"),
          d \in Pending("diagnostics") : g < r /\ d < r

(* ---------------------------------------------------------------------- *)
(* C10                                                                     *)
(* ---------------------------------------------------------------------- *)

\* every call in flight can return, fulfilled or rejected, in any state
EveryPendingCallCanReturn ==
    \A i \in DOMAIN calls :
        calls[i].status = "pending" =>
            /\ calls[i].kind = "climate" =>
                  ENABLED ClimateFulfilled(i) /\ ENABLED ClimateRejected(i, "")
            /\ calls[i].kind = "design" =>
                  ENABLED DesignFulfilled(i) /\ ENABLED DesignRejected(i, "")
            /\ calls[i].kind = "refine" =>
                  ENABLED RefineFulfilled(i) /\ ENABLED RefineRejected(i, "")
            /\ calls[i].kind = "evaluate" =>
                  ENABLED EvaluateFulfilled(i) /\ ENABLED EvaluateRejected(i, "")
            /\ calls[i].kind = "diagnostics" =>
                  /\ ENABLED DiagnosticsFulfilled(i)
                  /\ ENABLED DiagnosticsRejected(i, "")

\* a call stays in flight until it returns, and its return writes the
\* result of that very call, whatever has happened since it was issued
EveryReturnApplied ==
    \A i \in DOMAIN calls :
        /\ calls[i].status = "pending" =>
              calls'[i].status \in {"pending", "ok", "failed"}
        /\ calls[i].status # "pending" => calls'[i] = calls[i]
        /\ Returns(i, "climate", "ok") =>
              /\ Issues("design")
              /\ calls'[Len(calls')].climate = Some(ClimateData(i))
        /\ Returns(i, "design", "ok") =>
              /\ state'.floorPlan = Some(FloorPlan(i))
              /\ state'.climate = calls[i].climate
        /\ Returns(i, "refine", "ok") =>
              /\ state'.floorPlan = Some(FloorPlan(i))
              /\ state'.previousFloorPlan = calls[i].plan
              /\ Val(state'.refinement).changes_made = i
        /\ Returns(i, "evaluate", "ok") =>
              Val(state'.optimizationVerdict).expected_benefit = i
        /\ Returns(i, "diagnostics", "ok") =>
              Val(state'.floorPlan).diagnostics = ClimateDiagnostics(i)
        /\ (calls[i].status = "pending" /\ calls'[i].status = "failed") =>
              state'.error # undefined

\* C10: there is no cancellation: every issued call stays able to return and
\* its return applies its workflow's update, whatever other workflows
\* started or completed in between.
C10_NoCancellation ==
    []EveryPendingCallCanReturn /\ [][EveryReturnApplied]_vars

\* a Refine started while a Generate was in flight has completed after that
\* Generate: the climate is the later Generate's, the plan is the revision of
\* the plan the earlier Generate had produced
C10_Witness ==
    \E r, g \in DOMAIN calls :
        /\ calls[r].kind = "refine" /\ calls[r].status = "ok"
        /\ calls[g].kind = "design" /\ calls[g].status = "ok"
        /\ calls[g].wf < r
        /\ Val(calls[r].plan).rooms # FloorPlan(g).rooms
        /\ state.climate = Some(ClimateData(calls[g].wf))
        /\ state.floorPlan # undefined
        /\ Val(state.floorPlan).rooms = RefinementResult(r).revised_floor_plan.rooms
        /\ state.previousFloorPlan = calls[r].plan

(* ---------------------------------------------------------------------- *)
(* C11                                                                     *)
(* ---------------------------------------------------------------------- *)

\* a call of one of the kinds is fulfilled (rejected) in this step
FulfilledStep(kinds) ==
    \E i \in DOMAIN calls :
        /\ calls[i].kind \in kinds
        /\ calls[i].status = "pending" /\ calls'[i].status = "ok"

RejectedStep(kinds) ==
    \E i \in DOMAIN calls :
        /\ calls[i].kind \in kinds
        /\ calls[i].status = "pending" /\ calls'[i].status = "failed"

\* the messages a failed Generate may leave in the error field
GenerateErrors ==
    {Some(m) : m \in (ErrMessages \ {""}) \cup {"Failed to generate design."}}

\* a failure writes the message of the workflow that failed
FailureWritesOwnMessage ==
    /\ RejectedStep({"climate", "design"}) => state'.error \in GenerateErrors
    /\ RejectedStep({"refine", "evaluate"}) =>
          state'.error = Some("Optimization cycle failed. Please try again.")
    /\ RejectedStep({"diagnostics"}) =>
          state'.error = Some("Diagnostic audit failed.")

\* C11 as stated: a failure writes its own message, and a workflow that
\* completes successfully leaves the error absent.
C11_Original ==
    [][/\ FailureWritesOwnMessage
       /\ FulfilledStep({"design", "evaluate", "diagnostics"}) =>
             state'.error = undefined]_vars

\* C11 as amended: the error field holds the message of the most recent
\* failed action until the next failure overwrites it with its own message
\* or the next Generate is triggered, which clears it; no fulfilled call,
\* and no Refine or Diagnose trigger, changes it.
C11_ErrorUntilNextFailureOrGenerate ==
    [][/\ FailureWritesOwnMessage
       /\ Issues("climate") => state'.error = undefined
       /\ (\/ FulfilledStep({"climate", "design", "refine", "evaluate",
                             "diagnostics"})
           \/ Issues("refine")
           \/ Issues("diagnostics")) => state'.error = state.error]_vars

\* a Diagnose failed, the next Diagnose succeeded, and the banner still
\* shows the first one's failure
C11_Witness ==
    /\ state.error = Some("Diagnostic audit failed.")
    /\ \E i, j \in DOMAIN calls :
          /\ i < j
          /\ calls[i].kind = "diagnostics" /\ calls[i].status = "failed"
          /\ calls[j].kind = "diagnostics" /\ calls[j].status = "ok"
          /\ \A k \in DOMAIN calls : k > i => calls[k].status # "failed"

(* ---------------------------------------------------------------------- *)
(* C14                                                                     *)
(* ---------------------------------------------------------------------- *)

\* old is a prefix of new
IsPrefix(old, new) ==
    /\ Len(old) <= Len(new)
    /\ SubSeq(new, 1, Len(old)) = old

\* C14: the history log is append-only: every step keeps the old history as
\* a prefix of the new one; a fulfilled design call and a fulfilled refine
\* call append exactly one entry, every other step leaves it unchanged.
C14_HistoryAppendOnly ==
    [][/\ IsPrefix(state.history, state'.history)
       /\ IF FulfilledStep({"design", "refine"})
          THEN OneAppended(state.history, state'.history)
          ELSE state'.history = state.history]_vars

\* a Generate and a Refine have completed, a Diagnose has succeeded, an
\* evaluate call has failed, and the history holds the two entries in order
C14_Witness ==
    /\ state.history = <<"Designed for Phoenix",
                         "Refined design for performance optimization">>
    /\ \E i \in DOMAIN calls :
          calls[i].kind = "diagnostics" /\ calls[i].status = "ok"
    /\ \E i \in DOMAIN calls :
          calls[i].kind = "evaluate" /\ calls[i].status = "failed"

(* ---------------------------------------------------------------------- *)
(* C12 (checked under SpecInvoke)                                          *)
(* ---------------------------------------------------------------------- *)

\* Call i is rejected in this step, and its run was alone from its trigger
\* on: the latest invocation is the one that started the run, no call of
\* another run has been issued since, and the calls that were in flight at
\* the trigger are still in flight.
FailsAlone(i, kinds, handler) ==
    /\ calls[i].kind \in kinds
    /\ calls[i].status = "pending" /\ calls'[i].status = "failed"
    /\ before.handler = handler
    /\ before.issued + 1 = calls[i].wf
    /\ \A j \in DOMAIN calls : j > calls[i].wf => calls[j].wf = calls[i].wf
    /\ \A j \in before.pending : calls[j].status = "pending"

\* the result fields outside `own' have the values found at the trigger
Preserved(own) == \A f \in ResultFields \ own : state'[f] = before.state[f]

\* the plan has the fields found at the trigger, diagnostics aside
PlanPreservedButDiagnostics ==
    /\ (state'.floorPlan = undefined) <=> (before.state.floorPlan = undefined)
    /\ state'.floorPlan # undefined =>
          \A f \in PlanFieldsOtherThanDiagnostics :
              Val(state'.floorPlan)[f] = Val(before.state.floorPlan)[f]

RefineOwnFields ==
    {"floorPlan", "previousFloorPlan", "refinement", "optimizationVerdict",
     "history"}

\* C12 as stated: after a workflow that failed alone, every field other
\* than the busy flags, the error and the fields the workflow writes on
\* success (Generate: climate, floorPlan, history; Refine: floorPlan,
\* previousFloorPlan, refinement, optimizationVerdict, history; Diagnose: the
\* plan's diagnostics) has the value it had before the trigger.
C12_Original ==
    [][\A i \in DOMAIN calls :
          /\ FailsAlone(i, {"climate", "design"}, "handleGenerate") =>
                Preserved({"climate", "floorPlan", "history"})
          /\ FailsAlone(i, {"refine", "evaluate"}, "handleRefine") =>
                Preserved(RefineOwnFields)
          /\ FailsAlone(i, {"diagnostics"}, "handleRunDiagnostics") =>
                Preserved({"floorPlan"}) /\ PlanPreservedButDiagnostics]_vars

\* C12 as amended: the fields a failed Generate does not give back are
\* previousFloorPlan, refinement and optimizationVerdict, which its trigger
\* clears: after a Generate that failed alone these three are absent and
\* climate, floorPlan and history have the values they had before the
\* trigger; Refine and Diagnose as stated.
C12_FailurePreservesOtherFields ==
    [][\A i \in DOMAIN calls :
          /\ FailsAlone(i, {"climate", "design"}, "handleGenerate") =>
                /\ Preserved({"previousFloorPlan", "refinement",
                              "optimizationVerdict"})
                /\ state'.previousFloorPlan = undefined
                /\ state'.refinement = undefined
                /\ state'.optimizationVerdict = undefined
          /\ FailsAlone(i, {"refine", "evaluate"}, "handleRefine") =>
                Preserved(RefineOwnFields)
          /\ FailsAlone(i, {"diagnostics"}, "handleRunDiagnostics") =>
                Preserved({"floorPlan"}) /\ PlanPreservedButDiagnostics]_vars

\* a Generate started on a refined plan has failed alone: the plan, the
\* climate and the history are those found at its trigger, the refinement
\* found there is gone
C12_Witness ==
    /\ before.handler = "handleGenerate"
    /\ before.state.refinement # undefined
    /\ before.pending = {}
    /\ Len(calls) \in {before.issued + 1, before.issued + 2}
    /\ calls[Len(calls)].status = "failed"
    /\ calls[Len(calls)].wf = before.issued + 1
    /\ state.refinement = undefined
    /\ state.floorPlan = before.state.floorPlan
    /\ state.climate = before.state.climate
    /\ state.history = before.state.history

(* ---------------------------------------------------------------------- *)
(* C13 (checked under SpecInvoke)                                          *)
(* ---------------------------------------------------------------------- *)

\* the latest invocation found the handler's precondition missing
InvokedWithoutPrecondition(b) ==
    \/ b.handler = "handleGenerate" /\ b.location = ""
    \/ /\ b.handler = "handleRefine"
       /\ (b.state.floorPlan = undefined \/ b.state.climate = undefined)
    \/ b.handler = "handleRunDiagnostics" /\ b.state.floorPlan = undefined

\* C13: a handler invoked without its precondition (Generate with an empty
\* location, Refine without a plan and a climate, Diagnose without a plan)
\* issues no remote call and leaves every state field unchanged.
C13_NoPreconditionNoEffect ==
    [][(before' # before /\ InvokedWithoutPrecondition(before'))
          => (state' = state /\ calls' = calls)]_vars

\* the form was submitted with the location input emptied, after a Generate
\* had completed: nothing is in flight and no flag is set
C13_Witness ==
    /\ before.handler = "handleGenerate"
    /\ before.location = ""
    /\ before.issued = 2
    /\ Len(calls) = 2
    /\ state.floorPlan # undefined
    /\ ~state.isGenerating
    /\ state.error = undefined

(* ---------------------------------------------------------------------- *)
(* FloorPlanViewer: strings                                                *)
(* ---------------------------------------------------------------------- *)

\* A string is the sequence of its characters.
Uppercase ==
    <<"A", "B", "C", "D", "E", "F", "G", "H", "I", "J", "K", "L", "M",
      "N", "O", "P", "Q", "R", "S", "T", "U", "V", "W", "X", "Y", "Z">>

Lowercase ==
    <<"a", "b", "c", "d", "e", "f", "g", "h", "i", "j", "k", "l", "m",
      "n", "o", "p", "q", "r", "s", "t", "u", "v", "w", "x", "y", "z">>

WhiteSpace == {" ", "\t", "\n"}

\* String.prototype.toLowerCase
toLowerCase(s) ==
    [i \in 1..Len(s) |->
        IF \E k \in DOMAIN Uppercase : Uppercase[k] = s[i]
        THEN Lowercase[CHOOSE k \in DOMAIN Uppercase : Uppercase[k] = s[i]]
        ELSE s[i]]

\* String.prototype.trim
trim(s) ==
    LET kept == {i \in 1..Len(s) : s[i] \notin WhiteSpace}
    IN  IF kept = {}
        THEN <<>>
        ELSE SubSeq(s, CHOOSE i \in kept : \A j \in kept : i <= j,
                       CHOOSE i \in kept : \A j \in kept : j <= i)

\* String.prototype.includes
includes(s, t) ==
    \E i \in 1..(Len(s) - Len(t) + 1) : SubSeq(s, i, i + Len(t) - 1) = t

(* ---------------------------------------------------------------------- *)
(* FloorPlanViewer: numbers                                                *)
(* ---------------------------------------------------------------------- *)

\* The numbers of the bounding box: a whole number, Infinity or -Infinity
\* (NaN is what Infinity - Infinity gives).
Fin(n) == [inf |-> 0, n |-> n]
Infinity == [inf |-> 1, n |-> 0]
NegInfinity == [inf |-> -1, n |-> 0]
NaN == [inf |-> 2, n |-> 0]

MathMin(a, b) ==
    IF a.inf # b.inf THEN (IF a.inf < b.inf THEN a ELSE b)
    ELSE IF a.n <= b.n THEN a ELSE b

MathMax(a, b) ==
    IF a.inf # b.inf THEN (IF a.inf > b.inf THEN a ELSE b)
    ELSE IF a.n >= b.n THEN a ELSE b

\* a - b
Minus(a, b) ==
    IF a.inf = 0 /\ b.inf = 0 THEN Fin(a.n - b.n)
    ELSE IF a.inf = b.inf THEN NaN
    ELSE IF a.inf # 0 THEN a
    ELSE [inf |-> 0 - b.inf, n |-> 0]

\* a * k + c, for whole k > 0 and c
TimesPlus(a, k, c) == IF a.inf = 0 THEN Fin(a.n * k + c) ELSE a

SCALE == 35
PADDING == 60

(* ---------------------------------------------------------------------- *)
(* FloorPlanViewer: the plans it is given                                  *)
(* ---------------------------------------------------------------------- *)

MaxRooms == 2
MaxFlows == 2
MaxZones == 2

Hall == <<"H", "a", "l", "l">>
HallLower == <<"h", "a", "l", "l">>
Hallway == <<"H", "a", "l", "l", "w", "a", "y">>
HallLeadingSpace == <<" ", "H", "a", "l", "l">>
Den == <<"D", "e", "n">>
Loft == <<"L", "o", "f", "t">>

\* names of rooms: one plain, one equal to it ignoring case, one containing
\* it, one equal to it once trimmed, one unrelated.  None is a canonical
\* array index or the name of a member of Object.prototype.
RoomNames == {Hall, HallLower, Hallway, HallLeadingSpace, Den}

\* references to rooms: exact, exact once trimmed and lowercased, contained
\* in a name, containing a name, matching nothing, blank
RoomRefs ==
    {Hall,
     <<" ", "H", "A", "L", "L", " ">>,
     <<"a", "l", "l">>,
     <<"D", "e", "n", " ", "2">>,
     Loft,
     <<" ">>}

\* a room of the plan: the fields of Room the viewer's geometry and its
\* matching read (widths and heights are even, so their halves are whole)
Room(name, x, y, width, height) ==
    [name |-> name, x |-> x, y |-> y, width |-> width, height |-> height]

\* rooms side by side, the i-th at x = 4 * (i - 1)
RoomRow(names) ==
    [i \in 1..Len(names) |-> Room(names[i], 4 * (i - 1), 0, 4, 2)]

SeqsUpTo(S, n) == UNION {[1..k -> S] : k \in 0..n}

ClimateDiagnosticsOf(heat_risk, airflow, daylight) ==
    [heat_risk |-> heat_risk, airflow |-> airflow, daylight |-> daylight]

ViewerPlan(rooms, diagnostics) == [rooms |-> rooms, diagnostics |-> diagnostics]

AirflowPath(from, to, strength) == [from |-> from, to |-> to, strength |-> strength]

Strengths == {"weak", "moderate", "strong"}
Levels == {"low", "medium", "high"}

\* plans that vary the names of the rooms and the reference of one flow
ResolutionPlans ==
    {ViewerPlan(RoomRow(names),
                ClimateDiagnosticsOf(<<>>, <<AirflowPath(from, to, "moderate")>>, <<>>)) :
        names \in SeqsUpTo(RoomNames, MaxRooms), from \in RoomRefs, to \in {Den, Loft}}

\* plans that vary the flows between two rooms
StrengthPlans ==
    {ViewerPlan(RoomRow(<<Hall, Den>>), ClimateDiagnosticsOf(<<>>, airflow, <<>>)) :
        airflow \in SeqsUpTo({AirflowPath(from, Den, strength) :
                                 from \in {Hall, Loft}, strength \in Strengths},
                             MaxFlows)}

\* plans that vary the rectangles of the rooms
GeometryPlans ==
    {ViewerPlan(rooms, ClimateDiagnosticsOf(<<>>, <<>>, <<>>)) :
        rooms \in SeqsUpTo({Room(Den, x, y, width, 2) :
                               x \in {-2, 4}, y \in {0, 2}, width \in {2, 4}},
                           MaxRooms)}

\* plans that vary the heat-risk zones
OverlayPlans ==
    {ViewerPlan(RoomRow(names),
                ClimateDiagnosticsOf(heat_risk, <<>>, <<[room |-> Den, quality |-> "high"]>>)) :
        names \in {<<Hall, Hallway>>, <<Den, Hall>>},
        heat_risk \in SeqsUpTo({[room |-> room, level |-> level] :
                                   room \in {HallLower, Hallway, Den}, level \in Levels},
                               MaxZones)}

ViewerPlans == ResolutionPlans \cup StrengthPlans \cup GeometryPlans \cup OverlayPlans

(* ---------------------------------------------------------------------- *)
(* FloorPlanViewer: what it computes                                       *)
(* ---------------------------------------------------------------------- *)

\* variant: the right and bottom edges are taken at the room's origin
GrowIgnoresSize(box, r) ==
    [minX |-> MathMin(box.minX, Fin(r.x)),
     minY |-> MathMin(box.minY, Fin(r.y)),
     maxX |-> MathMax(box.maxX, Fin(r.x)),
     maxY |-> MathMax(box.maxY, Fin(r.y))]

\* the body of the forEach of dimensions
Grow(box, r) ==
    [minX |-> MathMin(box.minX, Fin(r.x)),
     minY |-> MathMin(box.minY, Fin(r.y)),
     maxX |-> MathMax(box.maxX, Fin(r.x + r.width)),
     maxY |-> MathMax(box.maxY, Fin(r.y + r.height))]

RECURSIVE BoxAfter(_, _)
\* minX, minY, maxX, maxY after the first n rooms
BoxAfter(rooms, n) ==
    IF n = 0
    THEN [minX |-> Infinity, minY |-> Infinity,
          maxX |-> NegInfinity, maxY |-> NegInfinity]
    ELSE Grow(BoxAfter(rooms, n - 1), rooms[n])

BoundingBox(plan) == BoxAfter(plan.rooms, Len(plan.rooms))

dimensions(plan) ==
    LET box == BoundingBox(plan)
    IN  [width |-> TimesPlus(Minus(box.maxX, box.minX), SCALE, PADDING * 2),
         height |-> TimesPlus(Minus(box.maxY, box.minY), SCALE, PADDING * 2),
         offsetX |-> box.minX,
         offsetY |-> box.minY]

\* c[key] = value on an object kept as the sequence of its entries, in the
\* order Object.entries gives for keys that are not array indices
Put(c, key, value) ==
    IF \E j \in DOMAIN c : c[j].key = key
    THEN [j \in DOMAIN c |-> IF c[j].key = key THEN [key |-> key, value |-> value] ELSE c[j]]
    ELSE Append(c, [key |-> key, value |-> value])

\* the centre of room r on the canvas
Centroid(r, dims) ==
    [x |-> Minus(Fin(r.x), dims.offsetX).n * SCALE + PADDING + (r.width * SCALE) \div 2,
     y |-> Minus(Fin(r.y), dims.offsetY).n * SCALE + PADDING + (r.height * SCALE) \div 2]

RECURSIVE CentroidsAfter(_, _, _)
CentroidsAfter(rooms, dims, n) ==
    IF n = 0
    THEN <<>>
    ELSE Put(CentroidsAfter(rooms, dims, n - 1),
             toLowerCase(rooms[n].name), Centroid(rooms[n], dims))

roomCentroids(plan) == CentroidsAfter(plan.rooms, dimensions(plan), Len(plan.rooms))

\* Array.prototype.find, given the places of the elements that pass the
\* test: the first such element, if any
find(seq, passing) ==
    IF passing # {}
    THEN Some(seq[CHOOSE j \in passing : \A k \in passing : j <= k])
    ELSE undefined

\* variant: only a key that contains the reference counts as a partial match
findCentroidKeyContainsOnly(c, roomRef) ==
    LET ref == trim(toLowerCase(roomRef))
        Partial(entry) == includes(entry.key, ref)
        match == find(c, {j \in DOMAIN c : Partial(c[j])})
    IN  IF \E j \in DOMAIN c : c[j].key = ref
        THEN Some((CHOOSE entry \in {c[j] : j \in DOMAIN c} : entry.key = ref).value)
        ELSE IF match = undefined THEN undefined ELSE Some(Val(match).value)

findCentroid(c, roomRef) ==
    LET ref == trim(toLowerCase(roomRef))
        Partial(entry) == includes(entry.key, ref) \/ includes(ref, entry.key)
        match == find(c, {j \in DOMAIN c : Partial(c[j])})
    IN  IF \E j \in DOMAIN c : c[j].key = ref
        THEN Some((CHOOSE entry \in {c[j] : j \in DOMAIN c} : entry.key = ref).value)
        ELSE IF match = undefined THEN undefined ELSE Some(Val(match).value)

\* obj.field of an object that may lack the field
Get(obj, field) == IF field \in DOMAIN obj THEN Some(obj[field]) ELSE undefined

\* variant: only a label that contains the room's name counts
ZoneMatchesLabelContainsName(z, room) ==
    includes(toLowerCase(z.room), toLowerCase(room.name))

\* the test of the heat-risk and daylight lookups
ZoneMatches(z, room) ==
    \/ includes(toLowerCase(z.room), toLowerCase(room.name))
    \/ includes(toLowerCase(room.name), toLowerCase(z.room))

\* one room of the plan as drawn: its rectangle and the two overlays
\* (opacities in hundredths)
RoomElement(plan, room, showHeatRisk, showDaylight) ==
    LET dims == dimensions(plan)
        heat_risk == plan.diagnostics.heat_risk
        heatRisk == find(heat_risk, {j \in DOMAIN heat_risk : ZoneMatches(heat_risk[j], room)})
        zones == plan.diagnostics.daylight
        daylight == find(zones, {j \in DOMAIN zones : ZoneMatches(zones[j], room)})
    IN  [x |-> Minus(Fin(room.x), dims.offsetX).n * SCALE + PADDING,
         y |-> Minus(Fin(room.y), dims.offsetY).n * SCALE + PADDING,
         width |-> room.width * SCALE,
         height |-> room.height * SCALE,
         heatOverlay |->
             IF showHeatRisk /\ heatRisk # undefined
             THEN Some([fillOpacity |->
                           IF Val(heatRisk).level = "high" THEN 45
                           ELSE IF Val(heatRisk).level = "medium" THEN 25
                           ELSE 10])
             ELSE undefined,
         daylightOverlay |->
             IF showDaylight /\ daylight # undefined
             THEN Some([fill |->
                           IF Val(daylight).quality = "high" THEN "#fbbf24"
                           ELSE IF Val(daylight).quality = "medium" THEN "#94a3b8"
                           ELSE "#64748b",
                        fillOpacity |-> 30])
             ELSE undefined]

\* one airflow entry as drawn: the two centroids found and the line, if any
\* (opacity in hundredths)
FlowElement(plan, flow) ==
    LET from == findCentroid(roomCentroids(plan), flow.from)
        to == findCentroid(roomCentroids(plan), flow.to)
    IN  [from |-> from,
         to |-> to,
         line |->
             IF from = undefined \/ to = undefined
             THEN undefined
             ELSE Some([x1 |-> Val(from).x, y1 |-> Val(from).y,
                        x2 |-> Val(to).x, y2 |-> Val(to).y,
                        strokeWidth |->
                            IF Get(flow, "efficiency") = Some("high") THEN 3 ELSE 2,
                        strokeOpacity |->
                            IF Get(flow, "efficiency") = Some("high") THEN 90 ELSE 60])]

\* what the component returns for a plan and the three toggles
Render(plan, showAirflow, showHeatRisk, showDaylight) ==
    [box |-> BoundingBox(plan),
     width |-> dimensions(plan).width,
     height |-> dimensions(plan).height,
     rooms |-> [i \in DOMAIN plan.rooms |->
                   RoomElement(plan, plan.rooms[i], showHeatRisk, showDaylight)],
     airflow |-> IF showAirflow
                 THEN [i \in DOMAIN plan.diagnostics.airflow |->
                          FlowElement(plan, plan.diagnostics.airflow[i])]
                 ELSE <<>>]

(* ---------------------------------------------------------------------- *)
(* FloorPlanViewer: the component                                          *)
(* ---------------------------------------------------------------------- *)

\* the component is mounted with a plan, its toggles off
FloorPlanViewer(plan) ==
    /\ viewer = NoViewer
    /\ viewer' = [viewer EXCEPT
                     !.plan = Some(plan),
                     !.svg = Some(Render(plan, viewer.showAirflow,
                                         viewer.showHeatRisk, viewer.showDaylight))]
    /\ UNCHANGED <<location, state, calls, before, card>>

\* the HEAT button
setShowHeatRisk ==
    /\ viewer.plan # undefined
    /\ viewer' = [viewer EXCEPT
                     !.showHeatRisk = ~viewer.showHeatRisk,
                     !.svg = Some(Render(Val(viewer.plan), viewer.showAirflow,
                                         ~viewer.showHeatRisk, viewer.showDaylight))]
    /\ UNCHANGED <<location, state, calls, before, card>>

\* the AIR button
setShowAirflow ==
    /\ viewer.plan # undefined
    /\ viewer' = [viewer EXCEPT
                     !.showAirflow = ~viewer.showAirflow,
                     !.svg = Some(Render(Val(viewer.plan), ~viewer.showAirflow,
                                         viewer.showHeatRisk, viewer.showDaylight))]
    /\ UNCHANGED <<location, state, calls, before, card>>

\* the LIGHT button
setShowDaylight ==
    /\ viewer.plan # undefined
    /\ viewer' = [viewer EXCEPT
                     !.showDaylight = ~viewer.showDaylight,
                     !.svg = Some(Render(Val(viewer.plan), viewer.showAirflow,
                                         viewer.showHeatRisk, ~viewer.showDaylight))]
    /\ UNCHANGED <<location, state, calls, before, card>>

NextViewer ==
    \/ \E plan \in ViewerPlans : FloorPlanViewer(plan)
    \/ setShowHeatRisk
    \/ setShowAirflow
    \/ setShowDaylight

SpecViewer == Init /\ [][NextViewer]_vars

(* ---------------------------------------------------------------------- *)
(* ClimateCard                                                             *)
(* ---------------------------------------------------------------------- *)

\* The four metrics in hundredths: 55 is 0.55.  One value lies above 1.
MetricValues == {0, 25, 50, 55, 100, 120}

Metrics ==
    [naturalLightScore : MetricValues, ventilationEfficiency : MetricValues,
     thermalMassUtilization : MetricValues, solarControlRating : MetricValues]

\* variant: the fraction is dropped
MathRoundTruncates(num, den) == num \div den

\* Math.round of num / den (den > 0): the nearest whole number, a half
\* going up
MathRound(num, den) == (2 * num + den) \div (2 * den)

\* ((a + b + c + d) / 4) * 100 of the metrics is their sum in hundredths
\* over 4
avgScore(metrics) ==
    IF metrics # undefined
    THEN Some(MathRound(Val(metrics).naturalLightScore
                        + Val(metrics).ventilationEfficiency
                        + Val(metrics).thermalMassUtilization
                        + Val(metrics).solarControlRating, 4))
    ELSE undefined

\* the card is rendered with the metrics of the plan, if there is one
ClimateCard(metrics) ==
    /\ card' = [metrics |-> metrics, avgScore |-> avgScore(metrics)]
    /\ UNCHANGED <<location, state, calls, before, viewer>>

NextCard == \E metrics \in {undefined} \cup {Some(m) : m \in Metrics} : ClimateCard(metrics)

SpecCard == Init /\ [][NextCard]_vars

(* ---------------------------------------------------------------------- *)
(* C15 (checked under SpecViewer)                                          *)
(* ---------------------------------------------------------------------- *)

\* C15: for a plan with at least one room, minX <= room.x and
\* maxX >= room.x + room.width for every room (minY, maxY likewise with y
\* and height), and the canvas is (maxX - minX) * SCALE + 2 * PADDING wide
\* and (maxY - minY) * SCALE + 2 * PADDING high.
C15_BoundingBoxAndCanvas ==
    (viewer.plan # undefined /\ Val(viewer.plan).rooms # <<>>) =>
        LET rooms == Val(viewer.plan).rooms
            svg == Val(viewer.svg)
            box == svg.box
        IN  /\ \A f \in DOMAIN box : box[f].inf = 0
            /\ \A i \in DOMAIN rooms :
                  /\ box.minX.n <= rooms[i].x
                  /\ box.maxX.n >= rooms[i].x + rooms[i].width
                  /\ box.minY.n <= rooms[i].y
                  /\ box.maxY.n >= rooms[i].y + rooms[i].height
            /\ svg.width = Fin((box.maxX.n - box.minX.n) * SCALE + 2 * PADDING)
            /\ svg.height = Fin((box.maxY.n - box.minY.n) * SCALE + 2 * PADDING)

\* two rooms apart from each other, neither at the origin: the canvas spans
\* from the left edge of one to the right edge of the other
C15_Witness ==
    /\ viewer.plan # undefined
    /\ Val(viewer.plan).rooms = <<Room(Den, 4, 2, 2, 2), Room(Den, -2, 0, 4, 2)>>
    /\ Val(viewer.svg).box.minX = Fin(-2)
    /\ Val(viewer.svg).box.maxX = Fin(6)
    /\ Val(viewer.svg).width = Fin(400)
    /\ Val(viewer.svg).height = Fin(260)

(* ---------------------------------------------------------------------- *)
(* C16, C17, C19 (checked under SpecViewer)                                *)
(* ---------------------------------------------------------------------- *)

\* the centre of the plan's i-th room on the canvas
CentroidOfRoom(plan, i) == Centroid(plan.rooms[i], dimensions(plan))

\* room and reference are equal once both are trimmed and lowercased
SameName(room, roomRef) ==
    trim(toLowerCase(room.name)) = trim(toLowerCase(roomRef))

\* the room's lowercased name contains the trimmed, lowercased reference or
\* is contained by it
Related(room, roomRef) ==
    \/ includes(toLowerCase(room.name), trim(toLowerCase(roomRef)))
    \/ includes(trim(toLowerCase(roomRef)), toLowerCase(room.name))

\* the airflow entries on display, each with the centroid found for its
\* from reference
Resolved ==
    IF viewer.plan # undefined /\ viewer.showAirflow
    THEN {[roomRef |-> Val(viewer.plan).diagnostics.airflow[i].from,
           found |-> Val(viewer.svg).airflow[i].from] :
             i \in DOMAIN Val(viewer.plan).diagnostics.airflow}
         \cup
         {[roomRef |-> Val(viewer.plan).diagnostics.airflow[i].to,
           found |-> Val(viewer.svg).airflow[i].to] :
             i \in DOMAIN Val(viewer.plan).diagnostics.airflow}
    ELSE {}

\* C16: if some room's name equals the reference after both are trimmed and
\* lowercased, findCentroid returns the centroid of such a room, even when
\* an earlier room matches the reference by containment.
C16_ExactMatchPreferred ==
    \A r \in Resolved :
        LET plan == Val(viewer.plan)
            same == {i \in DOMAIN plan.rooms : SameName(plan.rooms[i], r.roomRef)}
        IN  same # {} => r.found \in {Some(CentroidOfRoom(plan, i)) : i \in same}

C19_FirstRelatedRoomInArrayOrder ==
    \A r \in Resolved :
        LET plan == Val(viewer.plan)
            related == {i \in DOMAIN plan.rooms : Related(plan.rooms[i], r.roomRef)}
        IN  (/\ related # {}
             /\ \A i \in DOMAIN plan.rooms :
                   /\ ~SameName(plan.rooms[i], r.roomRef)
                   /\ toLowerCase(plan.rooms[i].name) # trim(toLowerCase(r.roomRef)))
            => r.found = Some(CentroidOfRoom(plan,
                                 CHOOSE i \in related : \A j \in related : i <= j))

(* ---------------------------------------------------------------------- *)
(* C20 (checked under SpecViewer)                                          *)
(* ---------------------------------------------------------------------- *)

\* strong > moderate > weak
StrengthRank(strength) ==
    IF strength = "strong" THEN 3 ELSE IF strength = "moderate" THEN 2 ELSE 1

\* C20: of two airflow entries whose endpoints both resolve, the one with
\* the higher strength is drawn with a strictly greater stroke width and a
\* strictly greater stroke opacity.
C20_StrongerFlowDrawnHeavier ==
    (viewer.plan # undefined /\ viewer.showAirflow) =>
        LET airflow == Val(viewer.plan).diagnostics.airflow
            lines == Val(viewer.svg).airflow
        IN  \A i, j \in DOMAIN airflow :
                (/\ lines[i].line # undefined
                 /\ lines[j].line # undefined
                 /\ StrengthRank(airflow[i].strength) > StrengthRank(airflow[j].strength))
                => /\ Val(lines[i].line).strokeWidth > Val(lines[j].line).strokeWidth
                   /\ Val(lines[i].line).strokeOpacity > Val(lines[j].line).strokeOpacity

(* ---------------------------------------------------------------------- *)
(* C18 (checked under SpecCard)                                            *)
(* ---------------------------------------------------------------------- *)

HeatEntriesFor(plan, room) ==
    {k \in DOMAIN plan.diagnostics.heat_risk :
        LET label == toLowerCase(plan.diagnostics.heat_risk[k].room)
            name == toLowerCase(room.name)
        IN  includes(label, name) \/ includes(name, label)}

\* high > medium > low
LevelRank(level) ==
    IF level = "high" THEN 3 ELSE IF level = "medium" THEN 2 ELSE 1

\* the level of the first heat-risk entry for the plan's i-th room
FirstLevel(plan, i) ==
    LET entries == HeatEntriesFor(plan, plan.rooms[i])
    IN  plan.diagnostics.heat_risk[CHOOSE k \in entries : \A j \in entries : k <= j].level

\* C21: with the heat overlay on, a room is tinted if and only if some
\* heat-risk entry's label contains the room's name or is contained by it,
\* ignoring case (and no room is tinted with the overlay off); the tint is
\* that of the first such entry in list order, its opacity strictly greater
\* for high than for medium and for medium than for low.
C21_HeatOverlay ==
    viewer.plan # undefined =>
        LET plan == Val(viewer.plan)
            drawn == Val(viewer.svg).rooms
            Tinted(i) == drawn[i].heatOverlay # undefined
            Opacity(i) == Val(drawn[i].heatOverlay).fillOpacity
        IN  /\ \A i \in DOMAIN plan.rooms :
                  Tinted(i) <=> (viewer.showHeatRisk
                                 /\ HeatEntriesFor(plan, plan.rooms[i]) # {})
            /\ \A i, j \in DOMAIN plan.rooms :
                  (Tinted(i) /\ Tinted(j)) =>
                      /\ LevelRank(FirstLevel(plan, i)) > LevelRank(FirstLevel(plan, j))
                            => Opacity(i) > Opacity(j)
                      /\ LevelRank(FirstLevel(plan, i)) = LevelRank(FirstLevel(plan, j))
                            => Opacity(i) = Opacity(j)

\* an entry labelled "Hallway" listed before a high-risk entry "hall": the
\* first entry tints both rooms, Hall and Hallway, at the medium opacity
C21_Witness ==
    /\ viewer.plan # undefined
    /\ viewer.showHeatRisk
    /\ Val(viewer.plan).rooms = RoomRow(<<Hall, Hallway>>)
    /\ Val(viewer.plan).diagnostics.heat_risk =
          <<[room |-> Hallway, level |-> "medium"], [room |-> HallLower, level |-> "high"]>>
    /\ Val(Val(viewer.svg).rooms[1].heatOverlay).fillOpacity = 25
    /\ Val(Val(viewer.svg).rooms[2].heatOverlay).fillOpacity = 25

\* two rooms tinted by different entries: the low-risk Den lighter than the
\* high-risk Hall
C21_WitnessOrdered ==
    /\ viewer.plan # undefined
    /\ viewer.showHeatRisk
    /\ Val(viewer.plan).rooms = RoomRow(<<Den, Hall>>)
    /\ Val(viewer.plan).diagnostics.heat_risk =
          <<[room |-> Den, level |-> "low"], [room |-> HallLower, level |-> "high"]>>
    /\ Val(Val(viewer.svg).rooms[1].heatOverlay).fillOpacity
          < Val(Val(viewer.svg).rooms[2].heatOverlay).fillOpacity

(* ---------------------------------------------------------------------- *)
(* C22, C23 (checked under Spec)                                           *)
(* ---------------------------------------------------------------------- *)

\* the runs of a workflow with a call of one of the kinds in flight
RunsInFlight(kinds) ==
    {calls[i].wf : i \in {j \in DOMAIN calls :
                             calls[j].kind \in kinds /\ calls[j].status = "pending"}}

\* C22: isRefining is true whenever a refine call is in flight, and at most
\* one Refine workflow (its refine call or its auto-evaluate) is in flight.
C22_OneRefineInFlight ==
    /\ Pending("refine") # {} => state.isRefining
    /\ Cardinality(RunsInFlight({"refine", "evaluate"})) <= 1

\* C23: at most one Generate and at most one Diagnose are in flight;
\* isGenerating is true exactly when a climate or design call is in flight,
\* isDiagnosing exactly when a diagnostics call is.
C23_GenerateAndDiagnoseFlags ==
    /\ Cardinality(Pending("climate") \cup Pending("design")) <= 1
    /\ Cardinality(Pending("diagnostics")) <= 1
    /\ state.isGenerating <=> (Pending("climate") \cup Pending("design") # {})
    /\ state.isDiagnosing <=> (Pending("diagnostics") # {})

\* a second Generate is in flight together with a Diagnose, after a
\* Diagnose that failed
C23_Witness ==
    /\ state.floorPlan # undefined
    /\ \E i \in DOMAIN calls : calls[i].kind = "diagnostics" /\ calls[i].status = "failed"
    /\ Pending("design") # {}
    /\ Pending("diagnostics") # {}
    /\ state.isGenerating /\ state.isDiagnosing /\ ~state.isRefining

(* ---------------------------------------------------------------------- *)
(* C25, C26, C27 (checked under Spec)                                      *)
(* ---------------------------------------------------------------------- *)

\* C25: whenever a refinement is stored, the current plan is the
\* refinement's revised plan, its diagnostics aside.
C25_RefinementIsCurrentPlan ==
    state.refinement # undefined =>
        /\ state.floorPlan # undefined
        /\ \A f \in PlanFieldsOtherThanDiagnostics :
              Val(state.floorPlan)[f] = Val(state.refinement).revised_floor_plan[f]

\* C26: whenever a verdict is stored, a refinement is stored too and the
\* verdict was computed from the performance metrics of the current plan.
C26_VerdictOfCurrentPlan ==
    state.optimizationVerdict # undefined =>
        /\ state.refinement # undefined
        /\ state.floorPlan # undefined
        /\ \E i \in DOMAIN calls :
              /\ calls[i].kind = "evaluate" /\ calls[i].status = "ok"
              /\ state.optimizationVerdict = Some(OptimizationEvaluation(i))
              /\ calls[i].metrics = Some(Val(state.floorPlan).performanceMetrics)

\* C27: previousFloorPlan is present exactly when refinement is, and a
\* stored floorPlan is never made absent again by any step.
C27_PreviousIffRefinementPlanStays ==
    /\ [](state.previousFloorPlan # undefined <=> state.refinement # undefined)
    /\ [][state.floorPlan # undefined => state'.floorPlan # undefined]_vars

\* a Generate has been triggered on a refined and audited plan and has
\* failed: refinement and previous plan are gone together, the plan stays
C27_Witness ==
    /\ state.floorPlan # undefined
    /\ state.previousFloorPlan = undefined /\ state.refinement = undefined
    /\ \E i, j, k \in DOMAIN calls :
          /\ i < j /\ j < k
          /\ calls[i].kind = "refine" /\ calls[i].status = "ok"
          /\ calls[j].kind = "diagnostics" /\ calls[j].status = "ok"
          /\ calls[k].kind = "climate" /\ calls[k].status = "failed"

(* ---------------------------------------------------------------------- *)
(* C24 (checked under SpecFair)                                            *)
(* ---------------------------------------------------------------------- *)

\* run w of a workflow has a call in flight
InFlight(w) ==
    \E i \in DOMAIN calls : calls[i].wf = w /\ calls[i].status = "pending"

NoCallOutstanding == \A i \in DOMAIN calls : calls[i].status # "pending"

NoFlagSet ==
    ~(state.isGenerating \/ state.isRefining \/ state.isEvaluating
      \/ state.isDiagnosing)

\* C24: when every call issued returns in the end, every workflow that
\* started finishes, and whenever no call is outstanding the four busy
\* flags are false.
C24_WorkflowsFinishFlagsCleared ==
    /\ \A w \in 1..MaxCalls : InFlight(w) ~> ~InFlight(w)
    /\ [](NoCallOutstanding => NoFlagSet)

\* all is quiet after two Refine runs overlapped, the first one's evaluate
\* returning while the second one's refine call was out
C24_Witness ==
    /\ NoCallOutstanding /\ NoFlagSet
    /\ \E i, j \in DOMAIN calls :
          /\ calls[i].kind = "evaluate" /\ calls[j].kind = "refine"
          /\ calls[i].wf < calls[j].wf
          /\ i < j
          /\ calls[j].status = "failed"

====
